---------------------------- MODULE Spec2Model ----------------------------
(***************************************************************************)
(* Mock delivery agency API (src/mock-delivery-api.js).                    *)
(*                                                                         *)
(* The process state is the in-memory parcel map, the tracking-number      *)
(* counter, the interval timers created by the simulate endpoint (each     *)
(* with its closure variables), the webhook requests issued by             *)
(* sendWebhook, the wall clock read by new Date(), and the HTTP response   *)
(* of the request handled last.  Node runs every handler and every timer   *)
(* callback to completion on one event loop, so each of them is one        *)
(* atomic action.                                                          *)
(*                                                                         *)
(* Time is counted in units of 1000 ms, and a handler or callback runs to  *)
(* completion within one unit, so every new Date() of one handler reads    *)
(* the same value.  A timestamp is the clock reading itself:               *)
(* Date.prototype.toISOString renders it in a fixed-width format, which is *)
(* injective and keeps the order of the readings.  The clock is taken to   *)
(* be non-decreasing, and it saturates at MaxClock: the reading MaxClock   *)
(* stands for every later instant, so a timer whose due time lies beyond   *)
(* MaxClock becomes due there.  A timer never fires before it is due; it   *)
(* may fire any time later.                                                *)
(***************************************************************************)
EXTENDS Integers, Sequences, FiniteSets, TLC

VARIABLES parcels, parcelIdCounter, timers, webhooks, pending, now, response

vars == <<parcels, parcelIdCounter, timers, webhooks, pending, now, response>>

---------------------------------------------------------------------------
(* Bounds of the model *)

MaxParcels == 2
MaxRuns == 1
MaxRaceRuns == 2
MaxManual == 1
MaxClock == 1
MaxInflight == 1

---------------------------------------------------------------------------
(* Program constants *)

FirstParcelId == 1000

STATUSES ==
  [ PENDING_PICKUP   |-> "pending_pickup",
    COLLECTED        |-> "collected",
    IN_TRANSIT       |-> "in_transit",
    OUT_FOR_DELIVERY |-> "out_for_delivery",
    DELIVERED        |-> "delivered",
    FAILED_DELIVERY  |-> "failed_delivery",
    RETURNED         |-> "returned",
    COMPLETED        |-> "completed",
    CANCELLED        |-> "cancelled" ]

\* Object.values(STATUSES)
StatusValues == { STATUSES[k] : k \in DOMAIN STATUSES }

DelayFast == 2
DelayNormal == 5
DelaySlow == 10

\* the delays table and `delays[speed] || delays.normal`, in units of 1000 ms
DelayOf(body) ==
  IF "speed" \in DOMAIN body /\ body["speed"] = "fast" THEN DelayFast
  ELSE IF "speed" \in DOMAIN body /\ body["speed"] = "slow" THEN DelaySlow
  ELSE DelayNormal

FailedFlow ==
  << STATUSES.COLLECTED, STATUSES.IN_TRANSIT, STATUSES.OUT_FOR_DELIVERY,
     STATUSES.FAILED_DELIVERY, STATUSES.RETURNED >>

DefaultFlow ==
  << STATUSES.COLLECTED, STATUSES.IN_TRANSIT, STATUSES.OUT_FOR_DELIVERY,
     STATUSES.DELIVERED, STATUSES.COMPLETED >>

\* A faulty variant: the scenario is never recognised
StatusFlowAlwaysDefault(body) == DefaultFlow

\* req.body.scenario === "failed" ? [...] : [...]
StatusFlow(body) ==
  IF "scenario" \in DOMAIN body /\ body["scenario"] = "failed"
  THEN FailedFlow ELSE DefaultFlow

\* `YDN${n}`
TrackingNumber(n) == <<"YDN", n>>

\* parcel.delivered_at || null in the webhook payload
Null == -1

---------------------------------------------------------------------------
(* Helpers *)

Min(a, b) == IF a < b THEN a ELSE b

\* A JSON body: each field is absent or carries one of vals.
Field(name, vals) == { <<>> } \cup { name :> v : v \in vals }

\* JavaScript truthiness of a string field of a body
TruthyStr(body, f) == f \in DOMAIN body /\ body[f] # ""

\* JavaScript truthiness of a numeric field of a body
TruthyNum(body, f) == f \in DOMAIN body /\ body[f] # 0

HasDeliveredAt(p) == "delivered_at" \in DOMAIN p

Last(s) == s[Len(s)]

\* Number of history entries of parcel p that a manual update appended
\* (the simulation's entries carry the note "Auto-simulated: ...")
ManualEntries(p) ==
  Cardinality({ i \in 2 .. Len(p.status_history) :
                  p.status_history[i].note[1] # "Auto-simulated: " })

RECURSIVE SumManual(_)
SumManual(S) ==
  IF S = {} THEN 0
  ELSE LET tn == CHOOSE x \in S : TRUE
       IN ManualEntries(parcels[tn]) + SumManual(S \ {tn})

---------------------------------------------------------------------------
(* sendWebhook *)

\* The request axios.post issues: url, payload, and the clock reading t.
WebhookRequest(url, p, t) ==
  [ url |-> url,
    event |-> "parcel.status.updated",
    timestamp |-> t,
    data |-> [ tracking_number |-> p.tracking_number,
               order_id |-> p.order_id,
               status |-> p.status,
               cod_amount |-> p.cod_amount,
               delivered_at |-> IF HasDeliveredAt(p) THEN p.delivered_at ELSE Null,
               status_history |-> p.status_history ] ]

\* A faulty variant: the creation's first notification is left out
SendWebhookUnlessFirst(p, t) ==
  IF "webhook_url" \in DOMAIN p /\ p.webhook_url # "" /\ Len(p.status_history) > 1
  THEN LET sent == IF p.tracking_number \in DOMAIN webhooks
                   THEN webhooks[p.tracking_number] ELSE <<>>
       IN /\ webhooks' = (p.tracking_number :>
                            Append(sent, WebhookRequest(p.webhook_url, p, t))) @@ webhooks
          /\ pending' = pending \cup { <<p.tracking_number, Len(sent) + 1>> }
  ELSE UNCHANGED <<webhooks, pending>>

\* if (webhook_url) sendWebhook(webhook_url, parcel): the request is issued
\* and awaited without blocking the caller.  webhooks keeps, for each
\* tracking number, the requests issued about that parcel, in order; pending
\* holds the requests whose axios.post has not settled yet.
SendWebhookIfUrl(p, t) ==
  IF "webhook_url" \in DOMAIN p /\ p.webhook_url # ""
  THEN LET sent == IF p.tracking_number \in DOMAIN webhooks
                   THEN webhooks[p.tracking_number] ELSE <<>>
       IN /\ webhooks' = (p.tracking_number :>
                            Append(sent, WebhookRequest(p.webhook_url, p, t))) @@ webhooks
          /\ pending' = pending \cup { <<p.tracking_number, Len(sent) + 1>> }
  ELSE UNCHANGED <<webhooks, pending>>

\* A faulty variant: a request that failed or timed out is issued again
WebhookSettlesRetries(i, outcome) ==
  /\ i \in pending
  /\ IF outcome = "ok"
     THEN /\ pending' = pending \ {i}
          /\ webhooks' = webhooks
     ELSE LET sent == webhooks[i[1]]
          IN /\ webhooks' = [ webhooks EXCEPT ![i[1]] = Append(sent, sent[i[2]]) ]
             /\ pending' = (pending \ {i}) \cup { <<i[1], Len(sent) + 1>> }
  /\ UNCHANGED <<parcels, parcelIdCounter, timers, now, response>>

\* A faulty variant: a request that failed or timed out is reported to the API caller
WebhookSettlesReportsFailure(i, outcome) ==
  /\ i \in pending
  /\ pending' = pending \ {i}
  /\ response' = IF outcome = "ok" THEN response
                 ELSE [ code |-> 500, success |-> FALSE, message |-> "Webhook failed" ]
  /\ UNCHANGED <<parcels, parcelIdCounter, timers, webhooks, now>>

\* The awaited axios.post settles: fulfilled, rejected or timed out after
\* 5000 ms; either way only a line is logged.
WebhookSettles(i, outcome) ==
  /\ i \in pending
  /\ pending' = pending \ {i}
  /\ UNCHANGED <<parcels, parcelIdCounter, timers, webhooks, now, response>>

---------------------------------------------------------------------------
(* The status transition shared by the manual update and the timer tick *)

\* A faulty variant: the entry is pushed but parcel.status is left as it was
ApplyStatusKeepsStatus(p, s, note, t) ==
  LET q == [ p EXCEPT !.status_history =
                         Append(@, [ status |-> s, timestamp |-> t, note |-> note ]) ]
  IN IF s = STATUSES.DELIVERED THEN ("delivered_at" :> t) @@ q ELSE q

\* A faulty variant: the history is reassigned to the new entry instead of pushed to
ApplyStatusRewrites(p, s, note, t) ==
  LET q == [ p EXCEPT !.status = s,
                      !.status_history =
                         << [ status |-> s, timestamp |-> t, note |-> note ] >> ]
  IN IF s = STATUSES.DELIVERED THEN ("delivered_at" :> t) @@ q ELSE q

\* A faulty variant: the entry is pushed twice
ApplyStatusPushesTwice(p, s, note, t) ==
  LET e == [ status |-> s, timestamp |-> t, note |-> note ]
      q == [ p EXCEPT !.status = s,
                      !.status_history = Append(Append(@, e), e) ]
  IN IF s = STATUSES.DELIVERED THEN ("delivered_at" :> t) @@ q ELSE q

\* A faulty variant: a delivered parcel's cash-on-delivery amount is settled to 0
ApplyStatusSettlesCod(p, s, note, t) ==
  LET q == [ p EXCEPT !.status = s,
                      !.status_history =
                         Append(@, [ status |-> s, timestamp |-> t, note |-> note ]) ]
  IN IF s = STATUSES.DELIVERED
     THEN ("delivered_at" :> t) @@ [ q EXCEPT !.cod_amount = 0 ]
     ELSE q

\* A faulty variant: delivered_at is stamped when the status becomes COMPLETED
ApplyStatusStampsCompleted(p, s, note, t) ==
  LET q == [ p EXCEPT !.status = s,
                      !.status_history =
                         Append(@, [ status |-> s, timestamp |-> t, note |-> note ]) ]
  IN IF s = STATUSES.COMPLETED
     THEN ("delivered_at" :> t) @@ q
     ELSE q

\* A faulty variant: a parcel in a final status (COMPLETED, RETURNED, CANCELLED) stays
\* as it is
ApplyStatusFinalSticks(p, s, note, t) ==
  IF p.status \in {STATUSES.COMPLETED, STATUSES.RETURNED, STATUSES.CANCELLED}
  THEN p
  ELSE LET q == [ p EXCEPT !.status = s,
                           !.status_history =
                              Append(@, [ status |-> s, timestamp |-> t, note |-> note ]) ]
       IN IF s = STATUSES.DELIVERED THEN ("delivered_at" :> t) @@ q ELSE q

\* parcel.status = s; parcel.status_history.push({...});
\* if (s === DELIVERED) parcel.delivered_at = new Date().toISOString()
ApplyStatus(p, s, note, t) ==
  LET q == [ p EXCEPT !.status = s,
                      !.status_history =
                         Append(@, [ status |-> s, timestamp |-> t, note |-> note ]) ]
  IN IF s = STATUSES.DELIVERED
     THEN ("delivered_at" :> t) @@ q
     ELSE q

---------------------------------------------------------------------------
(* Endpoints *)

Required == {"order_id", "customer_name", "customer_phone", "customer_address", "price"}

\* Creation requests: every required field given, with and without a
\* webhook_url; or one required field missing; or a price of 0
CreateBodies ==
  LET full == [ order_id |-> "ORD1", customer_name |-> "A", customer_phone |-> "000",
                customer_address |-> "X", price |-> 1000 ]
      hook == [ webhook_url |-> "http://shop/webhook" ]
  IN { full, full @@ hook, [ full EXCEPT !.price = 0 ] @@ hook }
       \cup { [ f \in Required \ {g} |-> full[f] ] @@ hook : g \in Required }

\* A faulty variant: the counter is read but not incremented
NextCounterStuck(n) == n

\* parcelIdCounter++
NextCounter(n) == n + 1

\* The parcel object built from a body at clock reading t.  A field the body
\* does not give is undefined in the object, that is, absent.
NewParcel(body, tracking_number, t) ==
  LET given ==
        [ f \in DOMAIN body \cap
                  {"order_id", "customer_name", "customer_phone", "customer_address",
                   "price", "webhook_url"} |-> body[f] ]
      cod == IF "price" \in DOMAIN body THEN [ cod_amount |-> body["price"] ] ELSE <<>>
      rest ==
        [ tracking_number |-> tracking_number,
          wilaya |-> IF TruthyStr(body, "wilaya") THEN body["wilaya"] ELSE "Tlemcen",
          commune |-> IF TruthyStr(body, "commune") THEN body["commune"] ELSE "Tlemcen",
          product_list |-> <<>>,
          status |-> STATUSES.PENDING_PICKUP,
          created_at |-> t,
          status_history |->
            << [ status |-> STATUSES.PENDING_PICKUP,
                 timestamp |-> t,
                 note |-> <<"Parcel created and awaiting pickup", "">> ] >> ]
  IN given @@ cod @@ rest

\* A faulty variant: the customer's phone is not checked
RequiredFieldsForgetsPhone(body) ==
  /\ TruthyStr(body, "order_id")
  /\ TruthyStr(body, "customer_name")
  /\ TruthyStr(body, "customer_address")
  /\ TruthyNum(body, "price")

\* The required fields of a creation request are all truthy
RequiredFields(body) ==
  /\ TruthyStr(body, "order_id")
  /\ TruthyStr(body, "customer_name")
  /\ TruthyStr(body, "customer_phone")
  /\ TruthyStr(body, "customer_address")
  /\ TruthyNum(body, "price")

Created(tracking_number, parcel) ==
  [ code |-> 201, success |-> TRUE, message |-> "Parcel created successfully",
    data |-> [ tracking_number |-> tracking_number, status |-> parcel.status,
               estimated_delivery |-> "2-3 business days" ] ]

\* POST /api/v1/parcels
CreateParcel(body) ==
  IF ~ RequiredFields(body)
  THEN /\ response' = [ code |-> 400, success |-> FALSE,
                        message |-> "Missing required fields" ]
       /\ UNCHANGED <<parcels, parcelIdCounter, timers, webhooks, pending, now>>
  ELSE LET tracking_number == TrackingNumber(parcelIdCounter)
           parcel == NewParcel(body, tracking_number, now)
       IN /\ parcelIdCounter' = NextCounter(parcelIdCounter)
          /\ parcels' = (tracking_number :> parcel) @@ parcels
          /\ response' = Created(tracking_number, parcel)
          /\ SendWebhookIfUrl(parcel, now)
          /\ UNCHANGED <<timers, now>>

\* Tracking numbers a request may name: those the counter can issue, and one
\* it never issues
TrackingInputs ==
  { TrackingNumber(n) : n \in (FirstParcelId - 1) .. (FirstParcelId + MaxParcels - 1) }

\* A faulty variant: an unknown tracking number is answered as a success
NotFoundAsOk ==
  [ code |-> 200, success |-> TRUE, message |-> "Parcel not found" ]

NotFound ==
  [ code |-> 404, success |-> FALSE, message |-> "Parcel not found" ]

\* GET /api/v1/parcels/:tracking_number
GetParcel(tracking_number) ==
  /\ response' =
       IF tracking_number \notin DOMAIN parcels THEN NotFound
       ELSE LET parcel == parcels[tracking_number]
            IN [ code |-> 200, success |-> TRUE, message |-> "",
                 data |-> [ tracking_number |-> parcel.tracking_number,
                            order_id |-> parcel.order_id,
                            status |-> parcel.status,
                            customer_name |-> parcel.customer_name,
                            customer_address |-> parcel.customer_address,
                            cod_amount |-> parcel.cod_amount,
                            status_history |-> parcel.status_history ] ]
  /\ UNCHANGED <<parcels, parcelIdCounter, timers, webhooks, pending, now>>

\* GET /api/v1/parcels
ListParcels ==
  /\ response' = [ code |-> 200, success |-> TRUE, message |-> "",
                   count |-> Cardinality(DOMAIN parcels) ]
  /\ UNCHANGED <<parcels, parcelIdCounter, timers, webhooks, pending, now>>

\* Bodies of a manual update: the status is absent, a member of the enum, or
\* "DELIVERED", which is a key of STATUSES and not one of its values
UpdateBodies ==
  { a @@ b :
      a \in Field("status", StatusValues \cup {"DELIVERED"}),
      b \in Field("note", {}) }

\* A faulty variant: only the presence of a status is checked
ValidStatusPresent(body) == "status" \in DOMAIN body

\* Object.values(STATUSES).includes(status)
ValidStatus(body) == "status" \in DOMAIN body /\ body["status"] \in StatusValues

\* PUT /api/v1/parcels/:tracking_number/status
UpdateStatus(tracking_number, body) ==
  IF tracking_number \notin DOMAIN parcels
  THEN /\ response' = NotFound
       /\ UNCHANGED <<parcels, parcelIdCounter, timers, webhooks, pending, now>>
  ELSE IF ~ ValidStatus(body)
  THEN /\ response' = [ code |-> 400, success |-> FALSE, message |-> "Invalid status" ]
       /\ UNCHANGED <<parcels, parcelIdCounter, timers, webhooks, pending, now>>
  ELSE /\  LET status == body["status"]
                note == IF TruthyStr(body, "note") THEN <<body["note"], "">>
                        ELSE <<"Status updated to ", status>>
                parcel == ApplyStatus(parcels[tracking_number], status, note, now)
            IN /\ parcels' = (tracking_number :> parcel) @@ parcels
               /\ response' = [ code |-> 200, success |-> TRUE,
                                message |-> "Status updated successfully",
                                data |-> [ tracking_number |-> tracking_number,
                                           status |-> parcel.status ] ]
               /\ SendWebhookIfUrl(parcel, now)
               /\ UNCHANGED <<parcelIdCounter, timers, now>>

\* A faulty variant: the callback is due at once, without waiting for the interval
DueImmediately(t, delay) == t

\* setInterval(callback, delay): the callback is next due one delay after t
Due(t, delay) == Min(t + delay, MaxClock)

\* Simulate requests: the empty body (normal speed, default scenario) and the
\* fast run of the failed scenario
SimulateBodies == { <<>>, [ speed |-> "fast", scenario |-> "failed" ] }

\* POST /api/v1/parcels/:tracking_number/simulate
Simulate(tracking_number, body) ==
  IF tracking_number \notin DOMAIN parcels
  THEN /\ response' = NotFound
       /\ UNCHANGED <<parcels, parcelIdCounter, timers, webhooks, pending, now>>
  ELSE /\ LET delay == DelayOf(body)
              statusFlow == StatusFlow(body)
          IN /\ timers' = Append(timers,
                   [ tracking_number |-> tracking_number,
                     body |-> body,
                     statusFlow |-> statusFlow,
                     currentIndex |-> 0,
                     delay |-> delay,
                     due |-> Due(now, delay),
                     active |-> TRUE ])
             /\ response' = [ code |-> 200, success |-> TRUE,
                              message |-> "Simulation started",
                              data |-> [ tracking_number |-> tracking_number,
                                         simulation_speed |->
                                           IF "speed" \in DOMAIN body
                                           THEN body["speed"] ELSE "undefined",
                                         estimated_completion |-> Len(statusFlow) * delay ] ]
       /\ UNCHANGED <<parcels, parcelIdCounter, webhooks, pending, now>>

\* A faulty variant: the run also stops once the parcel is cancelled
RunFinishedOrCancelled(i) ==
  \/ timers[i].currentIndex >= Len(timers[i].statusFlow)
  \/ parcels[timers[i].tracking_number].status = STATUSES.CANCELLED

\* if (currentIndex >= statusFlow.length)
RunFinished(i) == timers[i].currentIndex >= Len(timers[i].statusFlow)

\* A faulty variant: the callback returns without clearing the interval
ClearIntervalForgotten(i) == timers

\* clearInterval(interval)
ClearInterval(i) == [ timers EXCEPT ![i].active = FALSE ]

\* A faulty variant: the index is taken from the parcel's progress, not from the run's
\* own currentIndex
NewStatusFromParcel(run) ==
  run.statusFlow[Min(Len(parcels[run.tracking_number].status_history),
                     Len(run.statusFlow))]

\* statusFlow[currentIndex], the array being indexed from 0
NewStatus(run) == run.statusFlow[run.currentIndex + 1]

\* The setInterval callback of run i.  timers[i] holds the closure of the
\* i-th setInterval: tracking_number, req.body, statusFlow, currentIndex, the
\* delay, the time the next firing is due, and whether the interval is live.
TimerFires(i) ==
  /\ i \in DOMAIN timers
  /\ timers[i].active
  /\ now >= timers[i].due
  /\ LET run == timers[i]
         tracking_number == run.tracking_number
     IN IF RunFinished(i)
        THEN \* clearInterval(interval); return
             /\ timers' = ClearInterval(i)
             /\ UNCHANGED <<parcels, parcelIdCounter, webhooks, pending, now, response>>
        ELSE /\  LET newStatus == NewStatus(run)
                      parcel == ApplyStatus(parcels[tracking_number], newStatus,
                                            <<"Auto-simulated: ", newStatus>>, now)
                  IN /\ parcels' = (tracking_number :> parcel) @@ parcels
                     /\ SendWebhookIfUrl(parcel, now)
                     /\ timers' = [ timers EXCEPT
                                      ![i].currentIndex = @ + 1,
                                      ![i].due = Due(now, run.delay) ]
                     /\ UNCHANGED <<parcelIdCounter, response, now>>

\* Time passes
Tick ==
  /\ now < MaxClock
  /\ now' = now + 1
  /\ UNCHANGED <<parcels, parcelIdCounter, timers, webhooks, pending, response>>

---------------------------------------------------------------------------

Init ==
  /\ parcels = <<>>
  /\ parcelIdCounter = FirstParcelId
  /\ timers = <<>>
  /\ webhooks = <<>>
  /\ pending = {}
  /\ now = 0
  /\ response = [ code |-> 0, success |-> TRUE, message |-> "" ]

\* The bounds of a run of the model: parcels created, manual updates applied,
\* webhook requests in flight
MayCreate == parcelIdCounter < FirstParcelId + MaxParcels

MayUpdate == SumManual(DOMAIN parcels) < MaxManual

MaySend == Cardinality(pending) < MaxInflight

Next ==
  \/ \E body \in CreateBodies :
        (RequiredFields(body) => MayCreate /\ MaySend) /\ CreateParcel(body)
  \/ \E tn \in TrackingInputs : GetParcel(tn)
  \/ ListParcels
  \/ MayUpdate /\ MaySend /\
        \E tn \in TrackingInputs : \E body \in UpdateBodies : UpdateStatus(tn, body)
  \/ Len(timers) < MaxRuns /\
        \E tn \in TrackingInputs : \E body \in SimulateBodies : Simulate(tn, body)
  \/ \E i \in 1 .. MaxRuns : MaySend /\ TimerFires(i)
  \/ \E i \in pending : \E outcome \in {"ok", "failed", "timeout"} : WebhookSettles(i, outcome)
  \/ Tick

Spec == Init /\ [][Next]_vars

---------------------------------------------------------------------------
(* Concurrent simulation runs on one parcel, raced by manual updates.  The  *)
(* store holds one parcel, just created by a valid request; up to          *)
(* MaxRaceRuns runs are started on it.  The event loop runs a due timer    *)
(* callback, the awaited webhook request settles (it times out after 5000  *)
(* ms at the latest), and time passes: these steps are weakly fair.        *)

RaceCreateBodies == { body \in CreateBodies : RequiredFields(body) }

InitRace ==
  \E body \in RaceCreateBodies :
    LET tracking_number == TrackingNumber(FirstParcelId)
        parcel == NewParcel(body, tracking_number, 0)
        sends == "webhook_url" \in DOMAIN parcel /\ parcel.webhook_url # ""
    IN /\ parcels = (tracking_number :> parcel)
       /\ parcelIdCounter = NextCounter(FirstParcelId)
       /\ timers = <<>>
       /\ webhooks = IF sends
                     THEN (tracking_number :> << WebhookRequest(parcel.webhook_url, parcel, 0) >>)
                     ELSE <<>>
       /\ pending = IF sends THEN { <<tracking_number, 1>> } ELSE {}
       /\ now = 0
       /\ response = Created(tracking_number, parcel)

RaceUpdateBodies ==
  { body \in UpdateBodies :
      ValidStatus(body) /\ body["status"] \in {STATUSES.CANCELLED, STATUSES.COMPLETED} }

SimulateRace ==
  /\ Len(timers) < MaxRaceRuns
  /\ \E tn \in DOMAIN parcels : \E body \in SimulateBodies : Simulate(tn, body)

UpdateRace ==
  /\ MayUpdate /\ MaySend
  /\ \E tn \in DOMAIN parcels : \E body \in RaceUpdateBodies : UpdateStatus(tn, body)

TimerRace(i) == MaySend /\ TimerFires(i)

SettleRace ==
  \E i \in pending : \E outcome \in {"ok", "failed", "timeout"} : WebhookSettles(i, outcome)

NextRace ==
  \/ SimulateRace
  \/ UpdateRace
  \/ \E i \in 1 .. MaxRaceRuns : TimerRace(i)
  \/ SettleRace
  \/ Tick

FairSpec ==
  /\ InitRace
  /\ [][NextRace]_vars
  /\ WF_vars(Tick)
  /\ WF_vars(SettleRace)
  /\ \A i \in 1 .. MaxRaceRuns : WF_vars(TimerRace(i))

---------------------------------------------------------------------------
(* Manual updates in sequence.  The store holds one parcel, just created;  *)
(* up to MaxGraphUpdates manual updates, each to any member of the enum,   *)
(* are applied to it, before, between and after the ticks of the runs      *)
(* started on it, so that every status is followed by every status.        *)

MaxGraphUpdates == 2

GraphUpdateBodies == { body \in UpdateBodies : ValidStatus(body) }

UpdateGraph ==
  /\ MaySend
  /\ \E tn \in DOMAIN parcels :
       /\ ManualEntries(parcels[tn]) < MaxGraphUpdates
       /\ \E body \in GraphUpdateBodies : UpdateStatus(tn, body)

SimulateGraph ==
  /\ Len(timers) < MaxRuns
  /\ \E tn \in DOMAIN parcels : \E body \in SimulateBodies : Simulate(tn, body)

NextGraph ==
  \/ UpdateGraph
  \/ SimulateGraph
  \/ \E i \in 1 .. MaxRuns : TimerRace(i)
  \/ SettleRace
  \/ Tick

GraphSpec == InitRace /\ [][NextGraph]_vars

---------------------------------------------------------------------------
(* Timed runs.  The clock starts Horizon units before the reading at which *)
(* it saturates, so that a whole run lies within the exact part of the     *)
(* clock.  A parcel is created without a webhook URL and the simulate call *)
(* is accepted in the instant of the creation, so the parcel's created_at  *)
(* is the moment the call was accepted.  The event loop is idle: a timer   *)
(* callback runs in the instant it is due, time does not pass over it.     *)

Horizon == 30

TimedCreateBodies == { body \in RaceCreateBodies : "webhook_url" \notin DOMAIN body }

InitTimed ==
  /\ parcels = <<>>
  /\ parcelIdCounter = FirstParcelId
  /\ timers = <<>>
  /\ webhooks = <<>>
  /\ pending = {}
  /\ now = MaxClock - Horizon
  /\ response = [ code |-> 0, success |-> TRUE, message |-> "" ]

CreateTimed ==
  /\ MayCreate
  /\ \E body \in TimedCreateBodies : CreateParcel(body)

SimulateTimed ==
  /\ Len(timers) < MaxRuns
  /\ \E tn \in DOMAIN parcels : \E body \in SimulateBodies :
       /\ now = parcels[tn].created_at
       /\ now + (Len(StatusFlow(body)) + 1) * DelayOf(body) <= MaxClock
       /\ Simulate(tn, body)

TickTimed ==
  /\ \A i \in DOMAIN timers : timers[i].active => now < timers[i].due
  /\ Tick

NextTimed ==
  \/ CreateTimed
  \/ SimulateTimed
  \/ \E i \in 1 .. MaxRuns : TimerRace(i)
  \/ TickTimed

TimedSpec == InitTimed /\ [][NextTimed]_vars

---------------------------------------------------------------------------
(* Properties *)

History(tn) == parcels[tn].status_history

\* The statuses of a history, in order
StatusesOf(h) == [ k \in 1 .. Len(h) |-> h[k].status ]

IsPrefix(a, b) == Len(a) <= Len(b) /\ SubSeq(b, 1, Len(a)) = a

IsAuto(e) == e.note = <<"Auto-simulated: ", e.status>>

\* The runs started on parcel tn
RunsOn(tn) == { i \in DOMAIN timers : timers[i].tracking_number = tn }

\* The scenario sequences as the specification words them
ScenarioDefault ==
  << "collected", "in_transit", "out_for_delivery", "delivered", "completed" >>

ScenarioFailed ==
  << "collected", "in_transit", "out_for_delivery", "failed_delivery", "returned" >>

\* The sequence the request that started run i asked for
Expected(i) ==
  IF "scenario" \in DOMAIN timers[i].body /\ timers[i].body["scenario"] = "failed"
  THEN ScenarioFailed ELSE ScenarioDefault

\* h is an interleaving of a and b that keeps the order of each
RECURSIVE IsShuffle(_, _, _)
IsShuffle(h, a, b) ==
  IF h = <<>> THEN a = <<>> /\ b = <<>>
  ELSE \/ a # <<>> /\ Head(h) = Head(a) /\ IsShuffle(Tail(h), Tail(a), b)
       \/ b # <<>> /\ Head(h) = Head(b) /\ IsShuffle(Tail(h), a, Tail(b))

\* C1: in every reachable state every stored parcel's status equals the
\* status of the last entry of its status_history.
C1_StatusIsLastHistoryStatus ==
  \A tn \in DOMAIN parcels :
    /\ Len(History(tn)) >= 1
    /\ parcels[tn].status = Last(History(tn)).status

\* a parcel whose history holds a manual and a simulated entry after creation
C1_Witness ==
  \E tn \in DOMAIN parcels :
    /\ Len(History(tn)) >= 3
    /\ ManualEntries(parcels[tn]) >= 1
    /\ \E k \in 2 .. Len(History(tn)) : IsAuto(History(tn)[k])
    /\ parcels[tn].status # STATUSES.PENDING_PICKUP

\* C2: once delivered_at is set on a parcel, no later step changes it.
C2_DeliveredAtSetOnce ==
  [][ \A tn \in DOMAIN parcels :
        HasDeliveredAt(parcels[tn]) =>
          /\ tn \in DOMAIN parcels'
          /\ HasDeliveredAt(parcels'[tn])
          /\ parcels'[tn].delivered_at = parcels[tn].delivered_at ]_vars

\* C3: status_history is append-only: never empty, first entry
\* PENDING_PICKUP, and the history before a step is a prefix of the history
\* after it.
C3_HistoryAppendOnly ==
  [][ \A tn \in DOMAIN parcels' :
        /\ Len(parcels'[tn].status_history) >= 1
        /\ parcels'[tn].status_history[1].status = "pending_pickup"
        /\ tn \in DOMAIN parcels =>
             IsPrefix(parcels[tn].status_history, parcels'[tn].status_history) ]_vars

\* a history that grew by a manual and by a simulated entry
C3_Witness ==
  \E tn \in DOMAIN parcels :
    /\ Len(History(tn)) >= 4
    /\ ManualEntries(parcels[tn]) >= 1
    /\ History(tn)[1].status = "pending_pickup"

\* The status of body is not one of the nine enum members
NotAStatus(body) ==
  "status" \in DOMAIN body =>
     body["status"] \notin
       { "pending_pickup", "collected", "in_transit", "out_for_delivery",
         "delivered", "failed_delivery", "returned", "completed", "cancelled" }

\* C4: a manual update of an existing parcel with a status outside the enum
\* answers 400 and changes neither the store nor the webhooks sent.
C4_InvalidStatusRejected ==
  [][ \A tn \in DOMAIN parcels : \A body \in UpdateBodies :
        (NotAStatus(body) /\ UpdateStatus(tn, body)) =>
          /\ response'.code = 400
          /\ response'.success = FALSE
          /\ parcels' = parcels
          /\ webhooks' = webhooks
          /\ pending' = pending ]_vars

\* the invalid update of a parcel that has a webhook URL and a history
C4_Witness ==
  /\ response.code = 400
  /\ response.message = "Invalid status"
  /\ \E tn \in DOMAIN parcels :
       /\ "webhook_url" \in DOMAIN parcels[tn]
       /\ Len(History(tn)) >= 2

\* C5: a run on a parcel that nothing else touches appends exactly the
\* statuses of its scenario, each once and in order; it is over after the
\* fifth; the "failed" scenario never records DELIVERED.
C5_RunFollowsScenario ==
  \A i \in DOMAIN timers :
    LET tn == timers[i].tracking_number
        h == History(tn)
    IN (RunsOn(tn) = {i} /\ ManualEntries(parcels[tn]) = 0) =>
         /\ timers[i].currentIndex <= 5
         /\ StatusesOf(h) =
              <<"pending_pickup">> \o SubSeq(Expected(i), 1, timers[i].currentIndex)
         /\ ~ timers[i].active => Len(h) = 6
         /\ Expected(i) = ScenarioFailed =>
              \A k \in 1 .. Len(h) : h[k].status # "delivered"

\* a completed run of the failed scenario and a completed default run
C5_Witness ==
  \E i \in DOMAIN timers :
    /\ RunsOn(timers[i].tracking_number) = {i}
    /\ ManualEntries(parcels[timers[i].tracking_number]) = 0
    /\ ~ timers[i].active
    /\ Expected(i) = ScenarioFailed
    /\ parcels[timers[i].tracking_number].status = "returned"

\* C6 as stated: a run that has applied its final status has its timer
\* cancelled.
C6_CancelledWithFinalStatus ==
  \A i \in DOMAIN timers :
    timers[i].currentIndex = Len(timers[i].statusFlow) => ~ timers[i].active

\* C6 amended: a run never applies a sixth transition; its timer is
\* cancelled by the firing that follows the final status, which changes no
\* parcel; and every started run's timer is eventually cancelled.
C6_RunTerminates ==
  /\ [](\A i \in DOMAIN timers : timers[i].currentIndex <= 5)
  /\ [][ \A i \in DOMAIN timers :
           (timers[i].active /\ ~ timers'[i].active) =>
             /\ timers[i].currentIndex = 5
             /\ parcels' = parcels
             /\ webhooks' = webhooks ]_vars
  /\ \A i \in 1 .. MaxRaceRuns :
       (i \in DOMAIN timers) ~> (i \in DOMAIN timers /\ ~ timers[i].active)

\* a run whose timer was cancelled after five transitions
C6_Witness ==
  \E i \in DOMAIN timers :
    /\ ~ timers[i].active
    /\ timers[i].currentIndex = 5
    /\ Len(History(timers[i].tracking_number)) >= 6

\* C7: two runs on one parcel, nothing else touching it: the history gains
\* the runs' entries only, ten when both are over, each entry complete, each
\* run's entries in its scenario order, timestamps non-decreasing.
C7_TwoRunsInterleave ==
  \A tn \in DOMAIN parcels :
    (Cardinality(RunsOn(tn)) = 2 /\ ManualEntries(parcels[tn]) = 0) =>
      LET h == History(tn)
          i == CHOOSE x \in RunsOn(tn) : TRUE
          j == CHOOSE x \in RunsOn(tn) : x # i
      IN /\ Len(h) = 1 + timers[i].currentIndex + timers[j].currentIndex
         /\ (~ timers[i].active /\ ~ timers[j].active) => Len(h) = 11
         /\ IsShuffle(SubSeq(StatusesOf(h), 2, Len(h)),
                      SubSeq(Expected(i), 1, timers[i].currentIndex),
                      SubSeq(Expected(j), 1, timers[j].currentIndex))
         /\ \A k \in 2 .. Len(h) :
              /\ DOMAIN h[k] = {"status", "timestamp", "note"}
              /\ h[k].status \in StatusValues
              /\ h[k].timestamp \in 0 .. MaxClock
              /\ IsAuto(h[k])
              /\ h[k - 1].timestamp <= h[k].timestamp

\* both runs over, of different scenarios, their entries interleaved
C7_Witness ==
  \E tn \in DOMAIN parcels :
    /\ RunsOn(tn) = {1, 2}
    /\ ManualEntries(parcels[tn]) = 0
    /\ ~ timers[1].active /\ ~ timers[2].active
    /\ Expected(1) # Expected(2)
    /\ Len(History(tn)) = 11
    /\ History(tn)[3].status = "collected"
    /\ History(tn)[11].status = "completed"
    /\ History(tn)[1].timestamp < History(tn)[11].timestamp

\* Run i has applied each of its five statuses to its parcel
AppliedAll(i) ==
  /\ timers[i].currentIndex = 5
  /\ \A k \in 1 .. 5 :
       \E n \in 2 .. Len(History(timers[i].tracking_number)) :
         LET e == History(timers[i].tracking_number)[n]
         IN e.status = Expected(i)[k] /\ IsAuto(e)

\* C8: no API operation stops a started run: only the run's own callback
\* changes its closure, and the run eventually applies all five statuses.
C8_RunCannotBeStopped ==
  /\ [][ \A i \in DOMAIN timers : timers'[i] # timers[i] => TimerFires(i) ]_vars
  /\ \A i \in 1 .. MaxRaceRuns :
       (i \in DOMAIN timers) ~> (i \in DOMAIN timers /\ AppliedAll(i))

\* a run completed although the parcel was cancelled while it ran and a
\* second run was started on the parcel
C8_Witness ==
  \E i \in DOMAIN timers :
    LET h == History(timers[i].tracking_number)
    IN /\ AppliedAll(i)
       /\ Len(timers) = 2
       /\ \E m \in 3 .. Len(h) - 1 :
            /\ h[m].status = "cancelled" /\ ~ IsAuto(h[m])
            /\ IsAuto(h[m - 1])
            /\ IsAuto(h[m + 1])

\* The step appended exactly one entry, of status s, to the history of tn
AppendedOne(tn, s) ==
  LET h == parcels[tn].status_history
      g == parcels'[tn].status_history
  IN /\ Len(g) = Len(h) + 1
     /\ SubSeq(g, 1, Len(h)) = h
     /\ g[Len(g)].status = s
     /\ g[Len(g)].timestamp >= h[Len(h)].timestamp

\* C9: every applied transition, manual or simulated, appends exactly one
\* entry, carrying the new status and a timestamp not before the previous
\* entry's.
C9_TransitionAppendsOneEntry ==
  [][ /\ response' = response =>
           \A i \in DOMAIN timers :
             (timers[i].currentIndex < 5 /\ TimerFires(i))
                => AppendedOne(timers[i].tracking_number,
                               Expected(i)[timers[i].currentIndex + 1])
      /\ response'.code = 200 =>
           \A tn \in DOMAIN parcels : \A body \in UpdateBodies :
             (~ NotAStatus(body) /\ "status" \in DOMAIN body /\ UpdateStatus(tn, body))
                => AppendedOne(tn, body["status"]) ]_vars

\* a manual entry and a simulated entry, the last one later than the one
\* before it
C9_Witness ==
  \E tn \in DOMAIN parcels :
    LET h == History(tn)
    IN /\ Len(h) >= 3
       /\ ManualEntries(parcels[tn]) = 1
       /\ \E k \in 2 .. Len(h) : IsAuto(h[k])
       /\ h[Len(h) - 1].timestamp < h[Len(h)].timestamp

\* C10: no two parcels receive the same tracking number: the counter only
\* increases, every creation stores a new parcel under a number not issued
\* before, and each parcel carries the number it is stored under.
C10_TrackingNumbersUnique ==
  /\ [](/\ \A tn \in DOMAIN parcels :
             /\ parcels[tn].tracking_number = tn
             /\ tn[1] = "YDN"
             /\ tn[2] >= 1000 /\ tn[2] < parcelIdCounter
        /\ Cardinality(DOMAIN parcels) = parcelIdCounter - 1000)
  /\ [][ /\ parcelIdCounter' >= parcelIdCounter
         /\ DOMAIN parcels \subseteq DOMAIN parcels'
         /\ parcelIdCounter' # parcelIdCounter =>
              /\ parcelIdCounter' = parcelIdCounter + 1
              /\ DOMAIN parcels' \ DOMAIN parcels = { <<"YDN", parcelIdCounter>> }
         /\ parcelIdCounter' = parcelIdCounter => DOMAIN parcels' = DOMAIN parcels ]_vars

\* two parcels stored under different numbers, and a creation request
\* rejected after them
C10_Witness ==
  /\ DOMAIN parcels = { <<"YDN", 1000>>, <<"YDN", 1001>> }
  /\ parcelIdCounter = 1002
  /\ response.code = 400
  /\ response.message = "Missing required fields"

\* The creation request lacks one of the five required fields
LacksRequired(body) ==
  \E f \in {"order_id", "customer_name", "customer_phone", "customer_address", "price"} :
    f \notin DOMAIN body

\* C11: a creation request that lacks a required field is answered with a
\* validation failure and changes nothing: the stored parcels, the counter,
\* the timers and the webhook requests issued stay as they were.
C11_IncompleteCreationRejected ==
  [][ \A body \in CreateBodies :
        (LacksRequired(body) /\ CreateParcel(body)) =>
          /\ response'.code = 400
          /\ response'.success = FALSE
          /\ parcels' = parcels
          /\ parcelIdCounter' = parcelIdCounter
          /\ webhooks' = webhooks
          /\ pending' = pending
          /\ timers' = timers ]_vars

\* an incomplete request rejected while the store holds one parcel, created
\* with a webhook URL, and a run is going on
C11_Witness ==
  /\ response = [ code |-> 400, success |-> FALSE, message |-> "Missing required fields" ]
  /\ DOMAIN parcels = { <<"YDN", 1000>> }
  /\ parcelIdCounter = 1001
  /\ <<"YDN", 1000>> \in DOMAIN webhooks
  /\ Len(webhooks[<<"YDN", 1000>>]) >= 2
  /\ Len(timers) = 1

\* The creation request gives the five required fields, the strings not
\* empty and the price a number
GivesRequired(body) ==
  /\ \A f \in {"order_id", "customer_name", "customer_phone", "customer_address"} :
       f \in DOMAIN body /\ body[f] # ""
  /\ "price" \in DOMAIN body
  /\ body["price"] \in Int

\* C12: a creation request that gives every required field, with a numeric
\* price, succeeds and stores a parcel under the prefix followed by the
\* counter value, with status PENDING_PICKUP and a history of one entry of
\* that status.
C12_CompleteCreationSucceeds ==
  [][ \A body \in CreateBodies :
        (GivesRequired(body) /\ CreateParcel(body)) =>
          LET tn == <<"YDN", parcelIdCounter>>
          IN /\ response'.code = 201
             /\ tn \notin DOMAIN parcels
             /\ tn \in DOMAIN parcels'
             /\ parcels'[tn].tracking_number = tn
             /\ parcels'[tn].status = "pending_pickup"
             /\ StatusesOf(parcels'[tn].status_history) = << "pending_pickup" >> ]_vars

\* The parcel carries a webhook URL
HasWebhookUrl(p) == "webhook_url" \in DOMAIN p /\ p.webhook_url # ""

\* The webhook requests issued so far about parcel tn, in order
Sent(tn) == IF tn \in DOMAIN webhooks THEN webhooks[tn] ELSE <<>>

\* C13: a step that applies a transition to a parcel with a webhook URL
\* issues exactly one request, about that parcel and carrying its new status;
\* applied to a parcel without one it issues none; no other step issues a
\* request about a stored parcel, so a request that failed or timed out is
\* not issued again, and a settled request is never awaited again.
C13_OneWebhookPerTransition ==
  [][ /\ \A tn \in DOMAIN parcels :
           IF Len(parcels'[tn].status_history) > Len(parcels[tn].status_history)
           THEN IF HasWebhookUrl(parcels[tn])
                THEN /\ Len(Sent(tn)') = Len(Sent(tn)) + 1
                     /\ SubSeq(Sent(tn)', 1, Len(Sent(tn))) = Sent(tn)
                     /\ Last(Sent(tn)').url = parcels[tn].webhook_url
                     /\ Last(Sent(tn)').data.tracking_number = tn
                     /\ Last(Sent(tn)').data.status = parcels'[tn].status
                     /\ <<tn, Len(Sent(tn)')>> \in pending'
                ELSE /\ Sent(tn)' = <<>>
                     /\ pending' = pending
           ELSE Sent(tn)' = Sent(tn)
      /\ \A r \in pending' \ pending : r[2] > Len(Sent(r[1])) ]_vars

\* a parcel with a webhook URL, moved by a manual update and by a run, with
\* one request per history entry, all settled; and a parcel without a URL,
\* moved as well, with no request
C13_Witness ==
  /\ pending = {}
  /\ \E tn \in DOMAIN parcels :
       /\ HasWebhookUrl(parcels[tn])
       /\ Len(History(tn)) >= 3
       /\ Len(Sent(tn)) = Len(History(tn))
       /\ \E k \in 2 .. Len(History(tn)) : IsAuto(History(tn)[k])
  /\ \E tn \in DOMAIN parcels :
       /\ ~ HasWebhookUrl(parcels[tn])
       /\ ManualEntries(parcels[tn]) = 1
       /\ Sent(tn) = <<>>

\* C14: the outcome of a webhook request touches neither the store nor the
\* API caller.  A step in which a request settles changes nothing but the set
\* of requests awaited, and it is the same step whichever the outcome; the
\* success response of a manual update is out while the request the update
\* issued is still awaited.
C14_WebhookOutcomeIsolated ==
  [][ /\ pending \ pending' # {} =>
           /\ parcels' = parcels
           /\ parcelIdCounter' = parcelIdCounter
           /\ timers' = timers
           /\ webhooks' = webhooks
           /\ response' = response
      /\ \A i \in pending :
           (\E outcome \in {"ok", "failed", "timeout"} : WebhookSettles(i, outcome))
             => \A outcome \in {"ok", "failed", "timeout"} : WebhookSettles(i, outcome)
      /\ \A tn \in DOMAIN parcels :
           LET h == parcels'[tn].status_history
           IN (Len(h) > Len(parcels[tn].status_history) /\ ~ IsAuto(Last(h))) =>
                /\ response'.code = 200
                /\ response'.success = TRUE
                /\ response'.data.status = Last(h).status
                /\ HasWebhookUrl(parcels[tn]) => <<tn, Len(Sent(tn)')>> \in pending' ]_vars

\* the request a manual update issued has settled, and the caller's success
\* response and the updated parcel stand as they were
C14_Witness ==
  /\ pending = {}
  /\ response.code = 200
  /\ response.message = "Status updated successfully"
  /\ \E tn \in DOMAIN parcels :
       /\ HasWebhookUrl(parcels[tn])
       /\ response.data.tracking_number = tn
       /\ ~ IsAuto(Last(History(tn)))
       /\ Len(History(tn)) = 2
       /\ Len(Sent(tn)) = 2
       /\ parcels[tn].status = response.data.status

\* C20: a successful creation with a webhook URL issues one request, which
\* carries status PENDING_PICKUP and the history of one entry and is still
\* awaited when the creation response is out; so a parcel with a webhook URL
\* always has as many requests issued as its history has entries.
C20_CreationWebhook ==
  /\ [](\A tn \in DOMAIN parcels :
          HasWebhookUrl(parcels[tn]) =>
            /\ Len(Sent(tn)) = Len(History(tn))
            /\ Sent(tn)[1].url = parcels[tn].webhook_url
            /\ Sent(tn)[1].data.tracking_number = tn
            /\ Sent(tn)[1].data.status = "pending_pickup"
            /\ Sent(tn)[1].data.status_history = SubSeq(History(tn), 1, 1))
  /\ [][ \A tn \in DOMAIN parcels' \ DOMAIN parcels :
           HasWebhookUrl(parcels'[tn]) =>
             /\ response'.code = 201
             /\ response'.data.tracking_number = tn
             /\ Sent(tn) = <<>>
             /\ Len(Sent(tn)') = 1
             /\ <<tn, 1>> \in pending' ]_vars

\* a parcel just created with a webhook URL: the creation response is out
\* and its one request is awaited
C20_Witness ==
  \E tn \in DOMAIN parcels :
    /\ response = [ code |-> 201, success |-> TRUE, message |-> "Parcel created successfully",
                    data |-> [ tracking_number |-> tn, status |-> "pending_pickup",
                               estimated_delivery |-> "2-3 business days" ] ]
    /\ HasWebhookUrl(parcels[tn])
    /\ Len(History(tn)) = 1
    /\ Len(Sent(tn)) = 1
    /\ Sent(tn)[1].data.status = "pending_pickup"
    /\ pending = { <<tn, 1>> }

\* C16: get, manual update and simulate on a tracking number that is not in
\* the store each answer 404 and change nothing: no parcel is created or
\* modified, no timer is started, no webhook request is issued.
C16_UnknownTrackingNumber ==
  [][ \A tn \in TrackingInputs \ DOMAIN parcels :
        ( \/ GetParcel(tn)
          \/ \E body \in UpdateBodies : UpdateStatus(tn, body)
          \/ \E body \in SimulateBodies : Simulate(tn, body) ) =>
          /\ response'.code = 404
          /\ response'.success = FALSE
          /\ parcels' = parcels
          /\ parcelIdCounter' = parcelIdCounter
          /\ timers' = timers
          /\ webhooks' = webhooks
          /\ pending' = pending ]_vars

\* a request on a number that was never issued, answered 404 while the store
\* holds a parcel with a run in progress
C16_Witness ==
  /\ response = [ code |-> 404, success |-> FALSE, message |-> "Parcel not found" ]
  /\ DOMAIN parcels = { <<"YDN", 1000>> }
  /\ Len(timers) = 1
  /\ timers[1].currentIndex = 2
  /\ DOMAIN timers = RunsOn(<<"YDN", 1000>>)
  /\ Len(History(<<"YDN", 1000>>)) = 3

\* The fields of a parcel that a transition may change
Mutable == {"status", "status_history", "delivered_at"}

\* C18: after creation a parcel keeps its tracking number, order id,
\* customer fields, price, cod_amount, webhook_url and created_at: a step
\* changes at most the status, status_history and delivered_at of one
\* parcel, leaves every other parcel as it was, and removes none.
C18_TransitionFrame ==
  [][ /\ \A tn \in DOMAIN parcels :
           /\ tn \in DOMAIN parcels'
           /\ DOMAIN parcels[tn] \subseteq DOMAIN parcels'[tn]
           /\ DOMAIN parcels'[tn] \ DOMAIN parcels[tn] \subseteq {"delivered_at"}
           /\ \A f \in DOMAIN parcels[tn] \ Mutable : parcels'[tn][f] = parcels[tn][f]
      /\ Cardinality({ tn \in DOMAIN parcels : parcels'[tn] # parcels[tn] }) <= 1 ]_vars

\* two parcels: one taken to DELIVERED and beyond by a run, still carrying
\* what it was created with; the other untouched
C18_Witness ==
  /\ DOMAIN parcels = { <<"YDN", 1000>>, <<"YDN", 1001>> }
  /\ \E tn \in DOMAIN parcels :
       /\ HasDeliveredAt(parcels[tn])
       /\ parcels[tn].status = "completed"
       /\ Len(History(tn)) >= 6
       /\ parcels[tn].tracking_number = tn
       /\ parcels[tn].order_id = "ORD1"
       /\ parcels[tn].price = 1000
       /\ parcels[tn].cod_amount = 1000
       /\ parcels[tn].created_at = History(tn)[1].timestamp
       /\ \E other \in DOMAIN parcels \ {tn} :
            /\ Len(History(other)) = 1
            /\ ~ HasDeliveredAt(parcels[other])

\* C19: delivered_at is set exactly on the parcels whose history holds an
\* entry of status DELIVERED.
C19_DeliveredAtIffDelivered ==
  \A tn \in DOMAIN parcels :
    ("delivered_at" \in DOMAIN parcels[tn])
      <=> (\E k \in 1 .. Len(History(tn)) : History(tn)[k].status = "delivered")

\* a parcel delivered by a manual update, with delivered_at, beside a parcel
\* that ran the failed scenario to its end, without
C19_Witness ==
  /\ \E tn \in DOMAIN parcels :
       /\ "delivered_at" \in DOMAIN parcels[tn]
       /\ parcels[tn].delivered_at = Last(History(tn)).timestamp
       /\ parcels[tn].status = "delivered"
  /\ \E i \in DOMAIN timers :
       /\ Expected(i) = ScenarioFailed
       /\ ~ timers[i].active
       /\ RunsOn(timers[i].tracking_number) = {i}
       /\ ManualEntries(parcels[timers[i].tracking_number]) = 0
       /\ "delivered_at" \notin DOMAIN parcels[timers[i].tracking_number]

\* C17: no transition graph is enforced.  Whatever the status of a stored
\* parcel, a manual update to any member of the enum, its current status
\* included, can be applied and answers with success, and a simulate call
\* is accepted and starts a run.
C17_NoTransitionGraph ==
  \A tn \in DOMAIN parcels :
    /\ \A t \in { "pending_pickup", "collected", "in_transit", "out_for_delivery",
                  "delivered", "failed_delivery", "returned", "completed", "cancelled" } :
         ENABLED ( /\ UpdateStatus(tn, [ status |-> t ])
                   /\ response'.code = 200
                   /\ response'.success = TRUE
                   /\ parcels'[tn].status = t
                   /\ Len(parcels'[tn].status_history) =
                        Len(parcels[tn].status_history) + 1 )
    /\ \A body \in SimulateBodies :
         ENABLED ( /\ Simulate(tn, body)
                   /\ response'.code = 200
                   /\ Len(timers') = Len(timers) + 1
                   /\ timers'[Len(timers')].tracking_number = tn
                   /\ timers'[Len(timers')].active
                   /\ timers'[Len(timers')].currentIndex = 0 )

\* a cancelled parcel was put back to PENDING_PICKUP by a manual update, and
\* a run started on it has applied its first status
C17_Witness ==
  \E tn \in DOMAIN parcels :
    LET h == History(tn)
    IN /\ Len(h) = 4
       /\ h[2].status = "cancelled" /\ ~ IsAuto(h[2])
       /\ h[3].status = "pending_pickup" /\ ~ IsAuto(h[3])
       /\ h[4].status = "collected" /\ IsAuto(h[4])
       /\ parcels[tn].status = "collected"
       /\ response.message = "Simulation started"

\* Run i is the fast run of the failed scenario, alone on its parcel
FastFailed(i) ==
  /\ timers[i].body = [ speed |-> "fast", scenario |-> "failed" ]
  /\ RunsOn(timers[i].tracking_number) = {i}

\* C15 as stated: counting from the moment the simulate call was accepted,
\* the fast run of the failed scenario has applied all five statuses by the
\* time four intervals of 2 s have elapsed.
C15_AppliedAfterFourIntervals ==
  \A i \in DOMAIN timers :
    LET tn == timers[i].tracking_number
    IN (FastFailed(i) /\ now >= parcels[tn].created_at + 4 * 2) =>
         StatusesOf(History(tn)) = << "pending_pickup" >> \o ScenarioFailed

\* C15 amended: the first callback runs one interval after the call was
\* accepted, so the k-th status is applied k intervals of 2 s after it and
\* not before; when four intervals have elapsed at most four statuses are
\* applied, and all five are once five intervals (5 x 2 s) have elapsed.
C15_AppliedAfterFiveIntervals ==
  \A i \in DOMAIN timers :
    LET tn == timers[i].tracking_number
        h == History(tn)
        accepted == parcels[tn].created_at
    IN FastFailed(i) =>
         /\ StatusesOf(h) =
              << "pending_pickup" >> \o SubSeq(ScenarioFailed, 1, timers[i].currentIndex)
         /\ \A k \in 1 .. 5 :
              /\ now < accepted + k * 2 => timers[i].currentIndex < k
              /\ timers[i].currentIndex >= k => h[k + 1].timestamp = accepted + k * 2
         /\ now > accepted + 5 * 2 => timers[i].currentIndex = 5

\* five intervals after the call was accepted the fifth status has just been
\* applied, the fourth one interval before
C15_Witness ==
  \E i \in DOMAIN timers :
    LET tn == timers[i].tracking_number
        h == History(tn)
    IN /\ FastFailed(i)
       /\ now = parcels[tn].created_at + 5 * 2
       /\ timers[i].currentIndex = 5
       /\ parcels[tn].status = "returned"
       /\ h[5].timestamp = parcels[tn].created_at + 4 * 2
       /\ h[6].timestamp = now

=============================================================================
